---------------------------- MODULE Spec2Model ----------------------------
(***************************************************************************)
(* Model of the GitHub Actions webhook receiver (webhook_server.py) and    *)
(* of the event-log tools of the MCP server (server.py).                   *)
(*                                                                         *)
(* The receiver and the tool layer are separate processes that share one   *)
(* file, github_events.json.  The file is modelled by its existence and    *)
(* its text, a sequence of tokens: "[" , one token per event, "]".         *)
(* json.dump produces that text, json.load parses it and fails on every    *)
(* text that is not a complete array.                                      *)
(***************************************************************************)
EXTENDS Integers, Sequences, FiniteSets, TLC

(***************************************************************************)
(* Program constants and bounds of the model.                              *)
(***************************************************************************)
\* events = events[-100:]
MAX_EVENTS == 100

\* get_recent_actions_events(limit: int = 3)
DEFAULT_LIMIT == 3

\* Number of webhook requests of one run of the concurrent specification.
MaxRequests == 2

\* Longest partial text a flush of the write buffer leaves in the file
\* before the write completes.
MaxPartial == 2

\* Number of appends beyond MAX_EVENTS in the sequential specification.
MaxExtra == 2

Min(a, b) == IF a < b THEN a ELSE b

Max(a, b) == IF a > b THEN a ELSE b

(***************************************************************************)
(* Values.  None is Python's None.  A workflow_run is a dict: a record     *)
(* whose domain is the set of keys it carries.  updated_at is a string,    *)
(* modelled as the sequence of its characters (digits), compared the way   *)
(* Python compares str.                                                    *)
(***************************************************************************)
None == [none |-> TRUE]

RunBuildOld ==
    [name |-> "build", status |-> "completed", conclusion |-> "success",
     run_number |-> 1, updated_at |-> <<1, 0>>, html_url |-> "u1"]

RunBuildNew ==
    [name |-> "build", status |-> "in_progress", conclusion |-> "null",
     run_number |-> 2, updated_at |-> <<2>>, html_url |-> "u2"]

\* another run of build with the updated_at of RunBuildNew
RunBuildTie ==
    [name |-> "build", status |-> "completed", conclusion |-> "failure",
     run_number |-> 5, updated_at |-> <<2>>, html_url |-> "u5"]

\* no "conclusion" key: run.get("conclusion") is None
RunTest ==
    [name |-> "test", status |-> "queued",
     run_number |-> 3, updated_at |-> <<1>>, html_url |-> "u3"]

\* no "html_url" key
RunBroken ==
    [name |-> "test", status |-> "completed", conclusion |-> "failure",
     run_number |-> 4, updated_at |-> <<2>>]

\* The request bodies the model draws from: a parsed JSON object without and
\* with a "workflow_run" member, a JSON value that is no object, and a body
\* that is not JSON.
PlainBody == [kind |-> "object", workflow_run |-> None]

Bodies ==
    { PlainBody,
      [kind |-> "object", workflow_run |-> RunBuildOld],
      [kind |-> "array"],
      [kind |-> "malformed"] }

\* event = {"timestamp": ..., "workflow_run": data.get("workflow_run"), ...}
MakeEvent(ts, data) ==
    [timestamp |-> ts, workflow_run |-> data.workflow_run]

(***************************************************************************)
(* Python sequence slicing s[n:] with a possibly negative start index.     *)
(***************************************************************************)
SliceStart(n, len) ==
    IF n < 0 THEN Max(len + n, 0) ELSE Min(n, len)

SliceFrom(s, n) ==
    SubSeq(s, SliceStart(n, Len(s)) + 1, Len(s))

\* a truncation that keeps the head of the list instead of its tail
KeepOldest(events) == SubSeq(events, 1, Min(Len(events), MAX_EVENTS))

\* a truncation that is off by one: events[-99:]
KeepLastOffByOne(events) == SliceFrom(events, 1 - MAX_EVENTS)

\* events[-100:]
KeepLast(events) == SliceFrom(events, 0 - MAX_EVENTS)

\* events.append(event); events = events[-100:]
AppendEvent(events, event) == KeepLast(Append(events, event))

(***************************************************************************)
(* json.dump / json.load on the file's text.                               *)
(***************************************************************************)
LB == [t |-> "["]

RB == [t |-> "]"]

Tok(e) == [t |-> "event", v |-> e]

JsonDump(events) ==
    <<LB>> \o [i \in 1..Len(events) |-> Tok(events[i])] \o <<RB>>

\* TRUE when json.load(text) returns, FALSE when it raises JSONDecodeError
JsonValid(text) ==
    /\ Len(text) >= 2
    /\ text[1] = LB
    /\ text[Len(text)] = RB
    /\ \A i \in 2..(Len(text) - 1) : text[i].t = "event"

JsonLoad(text) ==
    [i \in 1..(Len(text) - 2) |-> text[i + 1].v]

\* number of event records that appear in a text, complete or not
EventsIn(text) ==
    Cardinality({i \in 1..Len(text) : text[i].t = "event"})


(***************************************************************************)
(* Tool results.  A tool returns a JSON list, the "no events yet" message  *)
(* object, or does not return because an exception leaves the function.    *)
(***************************************************************************)
ListResult(items) == [kind |-> "list", items |-> items]

MessageResult == [kind |-> "message", items |-> <<>>]

Raised(exc) == [kind |-> exc, items |-> <<>>]

NoResult == [kind |-> "pending", items |-> <<>>]

IsException(res) == res.kind \in {"JSONDecodeError", "KeyError"}

\* The optional workflow_name argument: None, or a string.
Some(s) == [some |-> s]

(***************************************************************************)
(* get_recent_actions_events, after the existence check.                   *)
(***************************************************************************)
\* recent = events[-limit:]
Recent(events, limit) == SliceFrom(events, 0 - limit)

\* return json.dumps([])
RecentAbsent == ListResult(<<>>)

RecentOfText(text, limit) ==
    IF JsonValid(text)
        THEN ListResult(Recent(JsonLoad(text), limit))
        ELSE Raised("JSONDecodeError")

(***************************************************************************)
(* get_workflow_status, after the existence check.                         *)
(***************************************************************************)
HasKey(run, k) == k \in DOMAIN run

\* a < b for Python strings
RECURSIVE StrLess(_, _)
StrLess(a, b) ==
    IF b = <<>> THEN FALSE
    ELSE IF a = <<>> THEN TRUE
    ELSE IF a[1] # b[1] THEN a[1] < b[1]
    ELSE StrLess(Tail(a), Tail(b))

\* a comparison by length first, the order of numbers written in digits
StrGreaterNumeric(a, b) ==
    \/ Len(a) > Len(b)
    \/ Len(a) = Len(b) /\ StrLess(b, a)

\* a comparison that also holds of equal strings
StrGreaterOrEqual(a, b) == ~StrLess(a, b)

\* run["updated_at"] > workflows[name]["updated_at"]
StrGreater(a, b) == StrLess(b, a)

\* the dict stored in workflows[name]
StatusOf(run) ==
    [name |-> run.name,
     status |-> run.status,
     conclusion |-> IF HasKey(run, "conclusion") THEN run.conclusion ELSE "null",
     run_number |-> run.run_number,
     updated_at |-> run.updated_at,
     html_url |-> run.html_url]

StatusKeys == {"status", "run_number", "updated_at", "html_url"}

\* position of name among the keys of workflows, 0 when it is no key
KeyIndex(workflows, name) ==
    IF \E i \in 1..Len(workflows) : workflows[i].name = name
        THEN CHOOSE i \in 1..Len(workflows) : workflows[i].name = name
        ELSE 0

\* the loop over workflow_events; workflows is the dict, in insertion order
RECURSIVE Reduce(_, _)
Reduce(wevents, workflows) ==
    IF wevents = <<>> THEN ListResult(workflows)
    ELSE LET run == Head(wevents).workflow_run IN
        IF ~HasKey(run, "name") THEN Raised("KeyError")
        ELSE LET idx == KeyIndex(workflows, run.name) IN
            IF idx = 0
            THEN IF StatusKeys \subseteq DOMAIN run
                 THEN Reduce(Tail(wevents), Append(workflows, StatusOf(run)))
                 ELSE Raised("KeyError")
            ELSE IF ~HasKey(run, "updated_at") THEN Raised("KeyError")
            ELSE IF StrGreater(run.updated_at, workflows[idx].updated_at)
                 THEN IF StatusKeys \subseteq DOMAIN run
                      THEN Reduce(Tail(wevents),
                                  [workflows EXCEPT ![idx] = StatusOf(run)])
                      ELSE Raised("KeyError")
                 ELSE Reduce(Tail(wevents), workflows)

CarriesRun(e) == e.workflow_run # None

\* e["workflow_run"].get("name") == workflow_name
NameIs(e, wname) ==
    HasKey(e.workflow_run, "name") /\ e.workflow_run.name = wname.some

\* if workflow_name:
Truthy(wname) == wname # None /\ wname # Some("")

WorkflowEvents(events, wname) ==
    LET carrying == SelectSeq(events, CarriesRun)
        Named(e) == NameIs(e, wname)
    IN  IF Truthy(wname) THEN SelectSeq(carrying, Named) ELSE carrying

\* an empty list where the code answers with the message
StatusAbsentEmpty == ListResult(<<>>)

\* return json.dumps({"message": "No GitHub Actions events received yet"})
StatusAbsent == MessageResult

\* a tool that answers with the message when no event passes the filter
StatusOfTextNoMatchMessage(text, wname) ==
    IF ~JsonValid(text) THEN Raised("JSONDecodeError")
    ELSE IF WorkflowEvents(JsonLoad(text), wname) = <<>> THEN MessageResult
    ELSE Reduce(WorkflowEvents(JsonLoad(text), wname), <<>>)

\* json.load, "if not events", the two filters and the loop
StatusOfText(text, wname) ==
    IF ~JsonValid(text) THEN Raised("JSONDecodeError")
    ELSE IF JsonLoad(text) = <<>> THEN MessageResult
    ELSE Reduce(WorkflowEvents(JsonLoad(text), wname), <<>>)

(***************************************************************************)
(* State.                                                                  *)
(*   fexists, ftext  the shared file github_events.json                    *)
(*   req             the receiver's handle_webhook coroutines              *)
(*   clock           the receiver's clock (datetime.utcnow())              *)
(*   tool            the tool call of the MCP server process               *)
(*   last            the tool call completed before the current one        *)
(*   an              the analyze_file_changes call of the MCP server       *)
(*   sel             the suggest_template call of the MCP server           *)
(*   tdir            the templates directory                               *)
(***************************************************************************)
VARIABLES fexists, ftext, req, clock, tool, last, an, sel, tdir

vars == <<fexists, ftext, req, clock, tool, last, an, sel, tdir>>

\* the state of the event log and of its writers and readers
logVars == <<fexists, ftext, req, clock, tool, last>>

\* the state of the tools that do not touch the event log
callVars == <<an, sel, tdir>>

Requests == 1..MaxRequests

NoEvent == [timestamp |-> 0, workflow_run |-> None]

IdleRequest ==
    [pc |-> "idle", proc |-> 0, body |-> [kind |-> "none"],
     event |-> NoEvent, events |-> <<>>, off |-> 0, resp |-> 0,
     outcome |-> "none"]

IdleTool ==
    [pc |-> "idle", op |-> "none", limit |-> 0, wname |-> None,
     snap |-> <<>>, result |-> NoResult]

\* events that were in the log before the receiver started
OldEvent(i, run) == [timestamp |-> 0 - i, workflow_run |-> run]

FullLog == [i \in 1..MAX_EVENTS |-> OldEvent(MAX_EVENTS + 1 - i, None)]

InitLogs ==
    { <<>>, <<OldEvent(1, RunBuildNew)>>, FullLog }

\* a text json.load rejects: an unfinished array
CorruptTexts ==
    { <<LB, Tok(OldEvent(1, RunBuildOld))>> }

(***************************************************************************)
(* analyze_file_changes (src/server.py): the texts git prints, the         *)
(* subprocess.run calls and the results of the tool.                       *)
(***************************************************************************)
\* the characters of a text: ordinary content, the line feed, the two
\* lines of the truncation notice and the text that stands for the diff
Ch(i) == [t |-> "ch", a |-> i, b |-> 0]

NL == [t |-> "nl", a |-> 0, b |-> 0]

\* f"... Output truncated. Showing {max_diff_lines} of {len(diff_lines)} lines ..."
Showing(m, n) == [t |-> "Output truncated. Showing", a |-> m, b |-> n]

UseMaxDiffLines ==
    [t |-> "Use max_diff_lines parameter to see more", a |-> 0, b |-> 0]

NotIncluded ==
    <<[t |-> "Diff not included (set include_diff=true to see full diff)",
       a |-> 0, b |-> 0]>>

\* the position of the k-th line feed of a text; 0 for k = 0 and one past
\* the end of the text when it has fewer than k line feeds
LineFeed(text, k) ==
    LET at == {i \in 1..Len(text) :
                  /\ text[i] = NL
                  /\ Cardinality({j \in 1..i : text[j] = NL}) = k}
    IN  IF k = 0 THEN 0
        ELSE IF at = {} THEN Len(text) + 1
        ELSE CHOOSE i \in at : TRUE

\* str.split('\n'): the pieces between line feeds; a text that ends in a
\* line feed has an empty last piece, and the empty text has one empty piece
Split(text) ==
    LET n == Cardinality({i \in 1..Len(text) : text[i] = NL})
    IN  [k \in 1..(n + 1) |->
            SubSeq(text, LineFeed(text, k - 1) + 1, LineFeed(text, k) - 1)]

\* str.splitlines(): as split, without the empty piece after a final line
\* feed and with no piece at all for the empty text
SplitLines(text) ==
    LET pieces == Split(text)
    IN  IF pieces[Len(pieces)] = <<>>
          THEN SubSeq(pieces, 1, Len(pieces) - 1)
          ELSE pieces

\* '\n'.join(lines)
RECURSIVE Join(_)
Join(lines) ==
    IF Len(lines) = 0 THEN <<>>
    ELSE IF Len(lines) = 1 THEN lines[1]
    ELSE lines[1] \o <<NL>> \o Join(Tail(lines))

\* [f.strip() for f in stdout.splitlines() if f.strip()]
ChangedFiles(stdout) == SelectSeq(SplitLines(stdout), LAMBDA f : f # <<>>)

\* changed_files[:100]
FILES_LIMIT == 100

\* every changed file
AllFiles(changed_files) == changed_files

FirstFiles(changed_files) ==
    SubSeq(changed_files, 1, Min(Len(changed_files), FILES_LIMIT))

\* what git prints: n lines, each ended by a line feed
GitLines(n) ==
    [i \in 1..(2 * n) |-> IF i % 2 = 1 THEN Ch((i + 1) \div 2) ELSE NL]

\* git diff --name-status prints one line per path it was given (the
\* paths of this model are one character long)
StatusLines(paths) ==
    [i \in 1..(2 * Len(paths)) |->
        IF i % 2 = 1 THEN [t |-> "M", a |-> paths[(i + 1) \div 2][1].a, b |-> 0]
        ELSE NL]

\* the diff kept by a call: every line when there are at most
\* max_diff_lines of them, else the first max_diff_lines and the notice
Truncates(diff_lines, max_diff_lines) == Len(diff_lines) > max_diff_lines

DiffContent(stdout, max_diff_lines) ==
    LET diff_lines == Split(stdout)
    IN  IF Truncates(diff_lines, max_diff_lines)
          THEN Join(SubSeq(diff_lines, 1, max_diff_lines))
               \o <<NL, NL, Showing(max_diff_lines, Len(diff_lines))>>
               \o <<NL, UseMaxDiffLines>>
          ELSE stdout

\* the ways a git process can end: it exits with status 0 in time, exits
\* with status 0 after more than command_timeout, never exits, cannot be
\* started (no git, directory not accessible, other), or exits nonzero
Outcomes ==
    {"ok", "slow", "hang", "notfound", "nonzero", "permission", "other"}

\* subprocess.run without a timeout argument
NoTimeout == 0

SubprocessCall(query, paths, check, timeout) ==
    [query |-> query, paths |-> paths, check |-> check, timeout |-> timeout,
     outcome |-> "none"]

\* subprocess.run: the value returned, the exception raised, or no return
Run(call, outcome, out) ==
    CASE outcome = "notfound" ->
           [kind |-> "raised", exc |-> "FileNotFoundError", stdout |-> <<>>]
      [] outcome = "permission" ->
           [kind |-> "raised", exc |-> "PermissionError", stdout |-> <<>>]
      [] outcome = "other" ->
           [kind |-> "raised", exc |-> "OSError", stdout |-> <<>>]
      [] outcome \in {"slow", "hang"} /\ call.timeout # NoTimeout ->
           [kind |-> "raised", exc |-> "TimeoutExpired", stdout |-> <<>>]
      [] outcome = "hang" /\ call.timeout = NoTimeout ->
           [kind |-> "blocked", exc |-> "", stdout |-> <<>>]
      [] outcome = "nonzero" /\ call.check ->
           [kind |-> "raised", exc |-> "CalledProcessError", stdout |-> <<>>]
      [] outcome = "nonzero" /\ ~call.check ->
           [kind |-> "returned", exc |-> "", stdout |-> <<>>]
      [] OTHER ->
           [kind |-> "returned", exc |-> "", stdout |-> out]

NoAnalysisResult ==
    [keys |-> {}, error |-> "", seconds |-> 0, files_changed |-> <<>>,
     statistics |-> <<>>, commits |-> <<>>, diff |-> <<>>,
     truncated |-> FALSE, total_diff_lines |-> 0]

AnalysisKeys ==
    {"base_branch", "files_changed", "statistics", "commits", "diff",
     "truncated", "total_diff_lines"}

\* the analysis dict of a call a that got the commit list
Analysis(a, commits) ==
    [keys |-> AnalysisKeys, error |-> "", seconds |-> 0,
     files_changed |-> a.files_changed,
     statistics |-> a.statistics,
     commits |-> commits,
     diff |-> IF a.include_diff THEN a.diff_content ELSE NotIncluded,
     truncated |-> a.truncated,
     total_diff_lines |-> IF a.include_diff THEN Len(a.diff_lines) ELSE 0]

ErrorResult(error, keys, seconds) ==
    [NoAnalysisResult EXCEPT !.keys = {"error", "details"} \cup keys,
                             !.error = error, !.seconds = seconds]

\* the except clauses of the tool, for an exception raised by a call that
\* was given timeout
Handler(exc, timeout) ==
    CASE exc = "TimeoutExpired" ->
           ErrorResult("Git command timeout", {"solution"}, timeout)
      [] exc = "CalledProcessError" ->
           ErrorResult("Git command execution failed", {"command"}, 0)
      [] exc = "FileNotFoundError" ->
           ErrorResult("Git not found", {"solution"}, 0)
      [] exc = "PermissionError" ->
           ErrorResult("Permission denied", {"solution"}, 0)
      [] OTHER ->
           ErrorResult("Unexpected " \o exc, {"context"}, 0)

\* the step after the statistics query
AfterStatAlwaysDiff(include_diff) == "diff"

AfterStat(include_diff) == IF include_diff THEN "diff" ELSE "log"

\* no analyze_file_changes call
IdleAnalysis ==
    [pc |-> "idle", include_diff |-> FALSE, max_diff_lines |-> 0,
     command_timeout |-> 0, changed_files |-> <<>>, files_changed |-> <<>>,
     statistics |-> <<>>, diff_out |-> <<>>, diff_lines |-> <<>>,
     diff_content |-> <<>>, truncated |-> FALSE, calls |-> <<>>,
     result |-> NoAnalysisResult]

(***************************************************************************)
(* get_pr_templates and suggest_template (src/server.py).  A change_type   *)
(* is a sequence of one-character strings; a file name is a string.        *)
(***************************************************************************)
\* DEFAULT_TEMPLATES, in the order of the dict
DEFAULT_TEMPLATES ==
    << [filename |-> "bug.md", type |-> "Bug Fix"],
       [filename |-> "feature.md", type |-> "Feature"],
       [filename |-> "docs.md", type |-> "Documentation"],
       [filename |-> "refactor.md", type |-> "Refactor"],
       [filename |-> "test.md", type |-> "Test"],
       [filename |-> "performance.md", type |-> "Performance"],
       [filename |-> "security.md", type |-> "Security"] >>

\* TYPE_MAPPING, as pairs of key and file name
TYPE_MAPPING ==
    { << <<"b", "u", "g">>, "bug.md" >>,
      << <<"f", "i", "x">>, "bug.md" >>,
      << <<"f", "e", "a", "t", "u", "r", "e">>, "feature.md" >>,
      << <<"e", "n", "h", "a", "n", "c", "e", "m", "e", "n", "t">>,
         "feature.md" >>,
      << <<"d", "o", "c", "s">>, "docs.md" >>,
      << <<"d", "o", "c", "u", "m", "e", "n", "t", "a", "t", "i", "o", "n">>,
         "docs.md" >>,
      << <<"r", "e", "f", "a", "c", "t", "o", "r">>, "refactor.md" >>,
      << <<"c", "l", "e", "a", "n", "u", "p">>, "refactor.md" >>,
      << <<"t", "e", "s", "t">>, "test.md" >>,
      << <<"t", "e", "s", "t", "i", "n", "g">>, "test.md" >>,
      << <<"p", "e", "r", "f", "o", "r", "m", "a", "n", "c", "e">>,
         "performance.md" >>,
      << <<"o", "p", "t", "i", "m", "i", "z", "a", "t", "i", "o", "n">>,
         "performance.md" >>,
      << <<"s", "e", "c", "u", "r", "i", "t", "y">>, "security.md" >> }

\* dict.get(key, default)
Get(mapping, key, default) ==
    IF \E p \in mapping : p[1] = key
      THEN (CHOOSE p \in mapping : p[1] = key)[2]
      ELSE default

Uppers ==
    <<"A", "B", "C", "D", "E", "F", "G", "H", "I", "J", "K", "L", "M",
      "N", "O", "P", "Q", "R", "S", "T", "U", "V", "W", "X", "Y", "Z">>

Lowers ==
    <<"a", "b", "c", "d", "e", "f", "g", "h", "i", "j", "k", "l", "m",
      "n", "o", "p", "q", "r", "s", "t", "u", "v", "w", "x", "y", "z">>

LowerChar(c) ==
    IF \E k \in 1..Len(Uppers) : Uppers[k] = c
      THEN Lowers[CHOOSE k \in 1..Len(Uppers) : Uppers[k] = c]
      ELSE c

UpperChar(c) ==
    IF \E k \in 1..Len(Lowers) : Lowers[k] = c
      THEN Uppers[CHOOSE k \in 1..Len(Lowers) : Lowers[k] = c]
      ELSE c

SameLabel(label) == label

\* str.lower()
ToLower(label) == [i \in 1..Len(label) |-> LowerChar(label[i])]

\* TYPE_MAPPING.get(change_type.lower(), "feature.md")
TemplateFile(change_type) ==
    Get(TYPE_MAPPING, ToLower(change_type), "feature.md")

\* the text of the template file of a name
Content(filename) == [text |-> filename]

NoTemplate == [filename |-> "", type |-> "", content |-> Content("")]

\* the entries get_pr_templates loads from a directory: the default
\* templates, in order, that exist and can be read
Loaded(dir) ==
    SelectSeq([i \in 1..Len(DEFAULT_TEMPLATES) |->
                  [filename |-> DEFAULT_TEMPLATES[i].filename,
                   type |-> DEFAULT_TEMPLATES[i].type,
                   content |-> Content(DEFAULT_TEMPLATES[i].filename)]],
              LAMBDA t : t.filename \in dir.files \ dir.unreadable)

NoCatalog == [keys |-> {}, error |-> "", templates |-> <<>>]

\* the response of get_pr_templates for a directory, mkdir succeeding or not
Catalog(dir, mkdir_ok) ==
    CASE ~dir.exists /\ ~mkdir_ok ->
           [keys |-> {"error", "mkdir_error"},
            error |-> "Templates directory not found and could not be created",
            templates |-> <<>>]
      [] Loaded(dir) = <<>> ->
           [keys |-> {"error", "available_files", "hint"},
            error |-> "No templates could be loaded",
            templates |-> <<>>]
      [] OTHER ->
           [keys |-> {"templates", "templates_dir"}, error |-> "",
            templates |-> Loaded(dir)]

\* next((t for t in templates if t["filename"] == template_file), templates[0])
SelectedFirst(templates, template_file) == templates[1]

Selected(templates, template_file) ==
    LET match == {i \in 1..Len(templates) :
                     templates[i].filename = template_file}
    IN  IF match = {} THEN templates[1]
        ELSE templates[CHOOSE i \in match : \A j \in match : i <= j]

NoSuggestion ==
    [keys |-> {}, error |-> "", recommended_template |-> NoTemplate,
     template_content |-> Content("")]

\* the result of suggest_template from the response of get_pr_templates
Suggestion(response, template_file) ==
    IF "error" \in response.keys
      THEN [NoSuggestion EXCEPT !.keys = response.keys,
                                !.error = response.error]
    ELSE IF response.templates = <<>>
      THEN [NoSuggestion EXCEPT !.keys = {"error", "suggestion"},
                                !.error = "No templates available"]
    ELSE LET selected_template == Selected(response.templates, template_file)
         IN  [keys |-> {"recommended_template", "reasoning",
                        "template_content", "usage_hint"},
              error |-> "",
              recommended_template |-> selected_template,
              template_content |-> selected_template.content]

\* no suggest_template call, and a server installed without its
\* templates directory
IdleSelection ==
    [pc |-> "idle", change_type |-> <<>>, response |-> NoCatalog,
     template_file |-> "", result |-> NoSuggestion]

NoTemplatesDir == [exists |-> FALSE, files |-> {}, unreadable |-> {}]

InitCommon ==
    /\ req = [r \in Requests |-> IdleRequest]
    /\ clock = 1
    /\ tool = IdleTool
    /\ last = IdleTool
    /\ an = IdleAnalysis
    /\ sel = IdleSelection
    /\ tdir = NoTemplatesDir

Init ==
    /\ \/ fexists = FALSE /\ ftext = <<>>
       \/ fexists = TRUE /\ ftext \in {JsonDump(l) : l \in InitLogs}
       \/ fexists = TRUE /\ ftext \in CorruptTexts
    /\ InitCommon

(***************************************************************************)
(* handle_webhook.  A coroutine is suspended only at                       *)
(* "await request.json()"; from there to its return it runs without        *)
(* yielding to the other coroutines of its process.  Every file operation  *)
(* is a step of its own: other processes run between them.                 *)
(***************************************************************************)
RunningPcs == {"exists", "read", "open_w", "dump"}

\* a scheduler that resumes a coroutine while another one is running
CanRunAlways(r) == TRUE

\* the event loop runs one coroutine of a process at a time
CanRun(r) ==
    \A q \in Requests \ {r} :
        req[q].proc = req[r].proc => req[q].pc \notin RunningPcs

\* a receiver that answers 200 whatever became of the write
StatusCodeOptimistic(outcome) ==
    CASE outcome = "bad_json" -> 400
      [] outcome = "error" -> 500
      [] OTHER -> 200

\* the status of each web.json_response of handle_webhook
StatusCode(outcome) ==
    CASE outcome = "saved" -> 200
      [] outcome = "save_failed" -> 500
      [] outcome = "bad_json" -> 400
      [] outcome = "error" -> 500

\* the handler returns its response; its list of events and its place in
\* the file end with it
Respond(r, outcome) ==
    [req[r] EXCEPT !.pc = "done", !.outcome = outcome, !.off = 0,
                   !.events = <<>>,
                   !.resp = StatusCode(outcome)]

\* the request is routed to handle_webhook, which awaits the body
Arrive(r, body, p) ==
    /\ req[r].pc \in {"idle", "done"}
    /\ req' = [req EXCEPT ![r] =
                  [IdleRequest EXCEPT !.pc = "await_json", !.proc = p,
                                      !.body = body]]
    /\ UNCHANGED <<callVars, fexists, ftext, clock, tool, last>>

\* a handler that takes a body that is not JSON for an empty object
ResumeLenient(r) ==
    /\ req[r].pc = "await_json"
    /\ CanRun(r)
    /\ CASE req[r].body.kind = "array" ->
              /\ req' = [req EXCEPT ![r] = Respond(r, "error")]
              /\ clock' = clock
         [] OTHER ->
              /\ req' = [req EXCEPT ![r].pc = "exists",
                                    ![r].event = MakeEvent(clock, PlainBody)]
              /\ clock' = clock + 1
    /\ UNCHANGED <<callVars, fexists, ftext, tool, last>>

\* data = await request.json() ... event = {...}
Resume(r) ==
    /\ req[r].pc = "await_json"
    /\ CanRun(r)
    /\ CASE req[r].body.kind = "malformed" ->
              /\ req' = [req EXCEPT ![r] = Respond(r, "bad_json")]
              /\ clock' = clock
         [] req[r].body.kind = "array" ->
              /\ req' = [req EXCEPT ![r] = Respond(r, "error")]
              /\ clock' = clock
         [] OTHER ->
              /\ req' = [req EXCEPT ![r].pc = "exists",
                                    ![r].event = MakeEvent(clock, req[r].body)]
              /\ clock' = clock + 1
    /\ UNCHANGED <<callVars, fexists, ftext, tool, last>>

\* if EVENTS_FILE.exists(): ... else: events = []
CheckExists(r) ==
    /\ req[r].pc = "exists"
    /\ req' = IF fexists
                THEN [req EXCEPT ![r].pc = "read"]
                ELSE [req EXCEPT ![r].pc = "open_w",
                                 ![r].events = AppendEvent(<<>>, req[r].event)]
    /\ UNCHANGED <<callVars, fexists, ftext, clock, tool, last>>

\* a handler that does not catch the JSONDecodeError of json.load
ReadFileStrict(r) ==
    /\ req[r].pc = "read"
    /\ req' = IF JsonValid(ftext)
                THEN [req EXCEPT ![r].pc = "open_w",
                                 ![r].events =
                                     AppendEvent(JsonLoad(ftext), req[r].event)]
                ELSE [req EXCEPT ![r] = Respond(r, "error")]
    /\ UNCHANGED <<callVars, fexists, ftext, clock, tool, last>>

\* events = json.load(f), or [] on JSONDecodeError; append; truncate
ReadFile(r) ==
    /\ req[r].pc = "read"
    /\ LET loaded == IF JsonValid(ftext) THEN JsonLoad(ftext) ELSE <<>>
       IN  req' = [req EXCEPT ![r].pc = "open_w",
                              ![r].events = AppendEvent(loaded, req[r].event)]
    /\ UNCHANGED <<callVars, fexists, ftext, clock, tool, last>>

\* a gap left in a file by a write beyond its end
NUL == [t |-> "nul"]

\* the text of a file after chunk is written at offset off: what was
\* before off, a gap when off is past the end, chunk, and what was
\* beyond chunk
WriteAt(text, off, chunk) ==
    SubSeq(text, 1, Min(off, Len(text)))
        \o [i \in 1..(off - Len(text)) |-> NUL]
        \o chunk
        \o SubSeq(text, off + Len(chunk) + 1, Len(text))

\* open(EVENTS_FILE, 'w') creates or truncates the file
OpenWrite(r) ==
    /\ req[r].pc = "open_w"
    /\ fexists' = TRUE
    /\ ftext' = <<>>
    /\ req' = [req EXCEPT ![r].pc = "dump", ![r].off = 0]
    /\ UNCHANGED <<callVars, clock, tool, last>>

\* open(EVENTS_FILE, 'w') raises
OpenWriteFail(r) ==
    /\ req[r].pc = "open_w"
    /\ req' = [req EXCEPT ![r] = Respond(r, "save_failed")]
    /\ UNCHANGED <<callVars, fexists, ftext, clock, tool, last>>

\* json.dump(events, f): the buffer is flushed before the text is complete
Flush(r) ==
    /\ req[r].pc = "dump"
    /\ LET full == JsonDump(req[r].events)
           off == req[r].off
       IN  \E k \in (off + 1)..Min(Len(full) - 1, MaxPartial) :
               /\ ftext' = WriteAt(ftext, off, SubSeq(full, off + 1, k))
               /\ req' = [req EXCEPT ![r].off = k]
    /\ UNCHANGED <<callVars, fexists, clock, tool, last>>

\* json.dump(events, f) raises
DumpFail(r) ==
    /\ req[r].pc = "dump"
    /\ req' = [req EXCEPT ![r] = Respond(r, "save_failed")]
    /\ UNCHANGED <<callVars, fexists, ftext, clock, tool, last>>

\* the with block ends: the whole text is in the file; return 200
CloseWrite(r) ==
    /\ req[r].pc = "dump"
    /\ LET full == JsonDump(req[r].events)
           off == req[r].off
       IN  ftext' = WriteAt(ftext, off, SubSeq(full, off + 1, Len(full)))
    /\ req' = [req EXCEPT ![r] = Respond(r, "saved")]
    /\ UNCHANGED <<callVars, fexists, clock, tool, last>>

(***************************************************************************)
(* The tools get_recent_actions_events and get_workflow_status, run by the *)
(* MCP server process.  The existence check and the read of the file are   *)
(* two steps: the receiver may write between them.                         *)
(***************************************************************************)
\* the call that has just returned was this very call
SameCall(t, op, limit, wname) ==
    t.pc = "done" /\ t.op = op /\ t.limit = limit /\ t.wname = wname

ToolCall(op, limit, wname) ==
    /\ tool.pc \in {"idle", "done"}
    /\ last' = IF SameCall(tool, op, limit, wname) THEN tool ELSE IdleTool
    /\ tool' = [IdleTool EXCEPT !.pc = "exists", !.op = op,
                                !.limit = limit, !.wname = wname]
    /\ UNCHANGED <<callVars, fexists, ftext, req, clock>>

\* what each tool returns when EVENTS_FILE.exists() is false
AbsentResult(op) ==
    IF op = "recent" THEN RecentAbsent ELSE StatusAbsent

\* what each tool returns, or raises, once it has read the file
TextResult(op, text, limit, wname) ==
    IF op = "recent" THEN RecentOfText(text, limit)
                     ELSE StatusOfText(text, wname)

\* if not EVENTS_FILE.exists(): return ...
ToolCheckExists ==
    /\ tool.pc = "exists"
    /\ tool' = IF fexists
                 THEN [tool EXCEPT !.pc = "open"]
                 ELSE [tool EXCEPT !.pc = "done",
                                   !.result = AbsentResult(tool.op)]
    /\ UNCHANGED <<callVars, fexists, ftext, req, clock, last>>

\* the caller has the result and calls nothing for now
ToolReturn ==
    /\ tool.pc = "done"
    /\ tool' = IdleTool
    /\ last' = IdleTool
    /\ UNCHANGED <<callVars, fexists, ftext, req, clock>>

\* a tool that rewrites the log with what it read
ToolReadRewrites ==
    /\ tool.pc = "open"
    /\ tool' = [tool EXCEPT !.pc = "done", !.snap = ftext,
                   !.result = TextResult(tool.op, ftext, tool.limit, tool.wname)]
    /\ ftext' = IF JsonValid(ftext)
                  THEN JsonDump(Recent(JsonLoad(ftext), 1))
                  ELSE ftext
    /\ UNCHANGED <<callVars, fexists, req, clock, last>>

\* with open(EVENTS_FILE, 'r') as f: events = json.load(f) ... return
ToolRead ==
    /\ tool.pc = "open"
    /\ tool' = [tool EXCEPT !.pc = "done", !.snap = ftext,
                   !.result = TextResult(tool.op, ftext, tool.limit, tool.wname)]
    /\ UNCHANGED <<callVars, fexists, ftext, req, clock, last>>

(***************************************************************************)
(* Specification of the deployed system: one receiver process, whose       *)
(* coroutines interleave, and the tool process.                            *)
(***************************************************************************)
FirstIdle(r) ==
    /\ req[r].pc = "idle"
    /\ \A q \in 1..(r - 1) : req[q].pc # "idle"

Next ==
    \/ \E r \in Requests, body \in Bodies : FirstIdle(r) /\ Arrive(r, body, 1)
    \/ \E r \in Requests : Resume(r)
    \/ \E r \in Requests : CheckExists(r)
    \/ \E r \in Requests : ReadFile(r)
    \/ \E r \in Requests : OpenWrite(r)
    \/ \E r \in Requests : OpenWriteFail(r)
    \/ \E r \in Requests : Flush(r)
    \/ \E r \in Requests : DumpFail(r)
    \/ \E r \in Requests : CloseWrite(r)
    \/ \E op \in {"recent", "status"} :
          tool.pc = "idle" /\ ToolCall(op, DEFAULT_LIMIT, None)
    \/ ToolCheckExists
    \/ ToolRead
    \/ ToolReturn

Spec == Init /\ [][Next]_vars

(***************************************************************************)
(* Specification of sequential use: the log is absent at first, every      *)
(* append completes before the next request arrives, no write fails, and   *)
(* the log is read between appends.                                        *)
(***************************************************************************)
Quiet == \A r \in Requests : req[r].pc \in {"idle", "done"}

InitSeq ==
    /\ fexists = FALSE
    /\ ftext = <<>>
    /\ InitCommon

NextSeq ==
    \/ /\ Quiet /\ tool.pc = "idle"
       /\ clock <= MAX_EVENTS + MaxExtra
       /\ Arrive(1, PlainBody, 1)
    \/ Resume(1)
    \/ CheckExists(1)
    \/ ReadFile(1)
    \/ OpenWrite(1)
    \/ CloseWrite(1)
    \/ Quiet /\ \E limit \in {DEFAULT_LIMIT, MAX_EVENTS} :
                    ToolCall("recent", limit, None)
    \/ ToolCheckExists
    \/ ToolRead
    \/ ToolReturn

SpecSeq == InitSeq /\ [][NextSeq]_vars

(***************************************************************************)
(* Specification of the tools as functions of the log: the file holds any  *)
(* log of at most MaxLogLen events (or is absent, or corrupt), nothing is  *)
(* appended, and the tools are called with every argument.                 *)
(***************************************************************************)
MaxLogLen == 3

Runs == {None, RunBuildOld, RunBuildNew, RunBuildTie, RunTest, RunBroken}

\* the logs of n events; the i-th event was stamped i
LogsOfLen(n) ==
    { [i \in 1..n |-> MakeEvent(i, [workflow_run |-> f[i]])] :
        f \in [1..n -> Runs] }

SmallLogs == UNION { LogsOfLen(n) : n \in 0..MaxLogLen }

Limits == {0, 1, 2, DEFAULT_LIMIT, MaxLogLen + 1}

Names == {None, Some(""), Some("build"), Some("test"), Some("deploy")}

InitTools ==
    /\ \/ fexists = FALSE /\ ftext = <<>>
       \/ fexists = TRUE /\ ftext \in {JsonDump(l) : l \in SmallLogs}
       \/ fexists = TRUE /\ ftext \in CorruptTexts
    /\ InitCommon

NextTools ==
    \/ \E limit \in Limits : ToolCall("recent", limit, None)
    \/ \E wname \in Names : ToolCall("status", 0, wname)
    \/ ToolCheckExists
    \/ ToolRead

SpecTools == InitTools /\ [][NextTools]_vars

(***************************************************************************)
(* analyze_file_changes, one action per git query.  Each query ends in     *)
(* one of Outcomes; the call's subprocess.run calls are kept, in order,    *)
(* in an.calls.                                                            *)
(***************************************************************************)
MaxDiffLines == 3

MaxChanged == 1

\* the values of max_diff_lines and command_timeout tried
DiffLimits == 1..(MaxDiffLines - 1)

DEFAULT_TIMEOUT == 180

Timeouts == {1, DEFAULT_TIMEOUT}

\* the numbers of changed files tried: none, a few, more than FILES_LIMIT
ChangedCounts == 0..MaxChanged \cup {FILES_LIMIT + 1}

StatText == GitLines(1)

LogText == GitLines(2)

\* an with call appended to its calls, ended by outcome
Called(call, outcome) ==
    [an EXCEPT !.calls = Append(an.calls, [call EXCEPT !.outcome = outcome])]

analyze_file_changes(include_diff, max_diff_lines, command_timeout) ==
    /\ an.pc = "idle"
    /\ an' = [IdleAnalysis EXCEPT !.pc = "names",
                                  !.include_diff = include_diff,
                                  !.max_diff_lines = max_diff_lines,
                                  !.command_timeout = command_timeout]
    /\ UNCHANGED <<logVars, sel, tdir>>

\* git diff --name-only; any exception is logged and the file list is empty
NameOnly(outcome, n) ==
    /\ an.pc = "names"
    /\ LET call == SubprocessCall("name-only", <<>>, TRUE, an.command_timeout)
           run == Run(call, outcome, GitLines(n))
           a == Called(call, outcome)
       IN  IF run.kind = "raised"
             THEN an' = [a EXCEPT !.pc = "stat", !.files_changed = <<>>]
             ELSE LET changed_files == ChangedFiles(run.stdout)
                  IN  an' = [a EXCEPT !.changed_files = changed_files,
                                      !.files_changed = <<>>,
                                      !.pc = IF changed_files # <<>>
                                               THEN "status" ELSE "stat"]
    /\ UNCHANGED <<logVars, sel, tdir>>

\* a per-file status query whose exception leaves the tool
NameStatusAborts(outcome) ==
    /\ an.pc = "status"
    /\ LET paths == FirstFiles(an.changed_files)
           call == SubprocessCall("name-status", paths, TRUE,
                                  an.command_timeout)
           run == Run(call, outcome, StatusLines(paths))
           a == Called(call, outcome)
       IN  IF run.kind = "raised"
             THEN an' = [a EXCEPT !.pc = "done",
                                  !.result = Handler(run.exc, call.timeout)]
             ELSE an' = [a EXCEPT !.pc = "stat",
                                  !.files_changed = run.stdout]
    /\ UNCHANGED <<logVars, sel, tdir>>

\* git diff --name-status over the first changed files, same handlers
NameStatus(outcome) ==
    /\ an.pc = "status"
    /\ LET paths == FirstFiles(an.changed_files)
           call == SubprocessCall("name-status", paths, TRUE,
                                  an.command_timeout)
           run == Run(call, outcome, StatusLines(paths))
           a == Called(call, outcome)
       IN  an' = [a EXCEPT !.pc = "stat",
                           !.files_changed = IF run.kind = "raised"
                                               THEN <<>> ELSE run.stdout]
    /\ UNCHANGED <<logVars, sel, tdir>>

\* a statistics query that is made again after a timeout
StatRetried(outcome) ==
    /\ an.pc = "stat"
    /\ LET call == SubprocessCall("stat", <<>>, FALSE, an.command_timeout)
           run == Run(call, outcome, StatText)
           a == Called(call, outcome)
       IN  CASE run.kind = "raised" /\ run.exc = "TimeoutExpired" ->
                  an' = a
             [] run.kind = "raised" /\ run.exc # "TimeoutExpired" ->
                  an' = [a EXCEPT !.pc = "done",
                                  !.result = Handler(run.exc, call.timeout)]
             [] OTHER ->
                  an' = [a EXCEPT !.pc = AfterStat(an.include_diff),
                                  !.statistics = run.stdout]
    /\ UNCHANGED <<logVars, sel, tdir>>

\* git diff --stat; an exception leaves the tool through its handlers
Stat(outcome) ==
    /\ an.pc = "stat"
    /\ LET call == SubprocessCall("stat", <<>>, FALSE, an.command_timeout)
           run == Run(call, outcome, StatText)
           a == Called(call, outcome)
       IN  IF run.kind = "raised"
             THEN an' = [a EXCEPT !.pc = "done",
                                  !.result = Handler(run.exc, call.timeout)]
             ELSE an' = [a EXCEPT !.pc = AfterStat(an.include_diff),
                                  !.statistics = run.stdout]
    /\ UNCHANGED <<logVars, sel, tdir>>

\* git diff, when include_diff
Diff(outcome, n) ==
    /\ an.pc = "diff"
    /\ LET call == SubprocessCall("diff", <<>>, FALSE, an.command_timeout)
           run == Run(call, outcome, GitLines(n))
           a == Called(call, outcome)
       IN  IF run.kind = "raised"
             THEN an' = [a EXCEPT !.pc = "done",
                                  !.result = Handler(run.exc, call.timeout)]
             ELSE an' = [a EXCEPT
                           !.pc = "log",
                           !.diff_out = run.stdout,
                           !.diff_lines = Split(run.stdout),
                           !.diff_content =
                               DiffContent(run.stdout, an.max_diff_lines),
                           !.truncated =
                               Truncates(Split(run.stdout), an.max_diff_lines)]
    /\ UNCHANGED <<logVars, sel, tdir>>

\* the timeout argument of the git log call
LogTimeout(command_timeout) == NoTimeout

\* git log --oneline, then the analysis is returned
Log(outcome) ==
    /\ an.pc = "log"
    /\ LET call == SubprocessCall("log", <<>>, FALSE,
                                  LogTimeout(an.command_timeout))
           run == Run(call, outcome, LogText)
           a == Called(call, outcome)
       IN  CASE run.kind = "raised" ->
                  an' = [a EXCEPT !.pc = "done",
                                  !.result = Handler(run.exc, call.timeout)]
             [] run.kind = "blocked" ->
                  an' = [a EXCEPT !.pc = "blocked"]
             [] OTHER ->
                  an' = [a EXCEPT !.pc = "done",
                                  !.result = Analysis(an, run.stdout)]
    /\ UNCHANGED <<logVars, sel, tdir>>

\* the caller has the result; the next call starts afresh
AnalyzeReturn ==
    /\ an.pc = "done"
    /\ an' = IdleAnalysis
    /\ UNCHANGED <<logVars, sel, tdir>>

InitAnalyze ==
    /\ fexists = FALSE
    /\ ftext = <<>>
    /\ InitCommon

NextAnalyze ==
    \/ \E include_diff \in BOOLEAN, m \in DiffLimits, t \in Timeouts :
           analyze_file_changes(include_diff, m, t)
    \/ \E outcome \in Outcomes, n \in ChangedCounts : NameOnly(outcome, n)
    \/ \E outcome \in Outcomes : NameStatus(outcome)
    \/ \E outcome \in Outcomes : Stat(outcome)
    \/ \E outcome \in Outcomes, n \in 0..MaxDiffLines : Diff(outcome, n)
    \/ \E outcome \in Outcomes : Log(outcome)
    \/ AnalyzeReturn

SpecAnalyze == InitAnalyze /\ [][NextAnalyze]_vars

(***************************************************************************)
(* suggest_template: the call, get_pr_templates over the templates         *)
(* directory, the selection.                                               *)
(***************************************************************************)
ToUpper(label) == [i \in 1..Len(label) |-> UpperChar(label[i])]

Capitalized(label) ==
    [i \in 1..Len(label) |-> IF i = 1 THEN UpperChar(label[i]) ELSE label[i]]

\* the change types tried: every key of TYPE_MAPPING in lower case, in
\* upper case and capitalized, and labels that are not keys
OtherLabels ==
    { <<>>, <<"c", "h", "o", "r", "e">>, <<"b", "u", "g", "s">>,
      <<"B", "u", "g", " ">>, <<"f", "i">> }

ChangeTypes ==
    UNION {{p[1], ToUpper(p[1]), Capitalized(p[1])} : p \in TYPE_MAPPING}
        \cup OtherLabels

\* the templates directories tried: absent, or holding any of the default
\* files and a file that is not a default template, one of them unreadable
TemplateNames ==
    {DEFAULT_TEMPLATES[i].filename : i \in 1..Len(DEFAULT_TEMPLATES)}

TemplateDirs ==
    {NoTemplatesDir} \cup
    {[exists |-> TRUE, files |-> F, unreadable |-> U] :
        F \in SUBSET (TemplateNames \cup {"notes.md"}),
        U \in {{}, {"bug.md"}}}

suggest_template(change_type) ==
    /\ sel.pc = "idle"
    /\ sel' = [IdleSelection EXCEPT !.pc = "templates",
                                    !.change_type = change_type]
    /\ UNCHANGED <<logVars, an, tdir>>

\* templates_response = await get_pr_templates(): the directory is made
\* when it is missing, then the default templates are loaded from it
get_pr_templates(mkdir_ok) ==
    /\ sel.pc = "templates"
    /\ sel' = [sel EXCEPT !.pc = "select",
                          !.response = Catalog(tdir, mkdir_ok)]
    /\ tdir' = IF ~tdir.exists /\ mkdir_ok
                 THEN [tdir EXCEPT !.exists = TRUE]
                 ELSE tdir
    /\ UNCHANGED <<logVars, an>>

\* the rest of suggest_template
Select ==
    /\ sel.pc = "select"
    /\ LET template_file == TemplateFile(sel.change_type)
       IN  sel' = [sel EXCEPT !.pc = "done",
                              !.template_file = template_file,
                              !.result = Suggestion(sel.response,
                                                    template_file)]
    /\ UNCHANGED <<logVars, an, tdir>>

SelectReturn ==
    /\ sel.pc = "done"
    /\ sel' = IdleSelection
    /\ UNCHANGED <<logVars, an, tdir>>

InitTemplates ==
    /\ fexists = FALSE
    /\ ftext = <<>>
    /\ req = [r \in Requests |-> IdleRequest]
    /\ clock = 1
    /\ tool = IdleTool
    /\ last = IdleTool
    /\ an = IdleAnalysis
    /\ sel = IdleSelection
    /\ tdir \in TemplateDirs

NextTemplates ==
    \/ \E change_type \in ChangeTypes : suggest_template(change_type)
    \/ \E mkdir_ok \in BOOLEAN : get_pr_templates(mkdir_ok)
    \/ Select
    \/ SelectReturn

SpecTemplates == InitTemplates /\ [][NextTemplates]_vars

(***************************************************************************)
(* Specification of two receiver processes on one log file: each handles   *)
(* one request, their steps interleave freely, no write fails.             *)
(***************************************************************************)
PriorLog == <<OldEvent(2, RunBuildOld), OldEvent(1, RunBuildNew)>>

InitTwo ==
    /\ fexists = TRUE
    /\ ftext = JsonDump(PriorLog)
    /\ InitCommon

NextTwo ==
    \/ \E r \in Requests : FirstIdle(r) /\ Arrive(r, PlainBody, r)
    \/ \E r \in Requests : Resume(r)
    \/ \E r \in Requests : CheckExists(r)
    \/ \E r \in Requests : ReadFile(r)
    \/ \E r \in Requests : OpenWrite(r)
    \/ \E r \in Requests : Flush(r)
    \/ \E r \in Requests : CloseWrite(r)

SpecTwo == InitTwo /\ [][NextTwo]_vars

(***************************************************************************)
(* Specification of appends onto a log that is absent or cannot be         *)
(* parsed: one receiver process, bodies that are JSON objects, no write    *)
(* fails.                                                                  *)
(***************************************************************************)
\* the texts of a file json.load rejects: an unfinished array, no text
UnparsableTexts == CorruptTexts \cup {<<>>}

ObjectBodies == {b \in Bodies : b.kind = "object"}

InitFresh ==
    /\ \/ fexists = FALSE /\ ftext = <<>>
       \/ fexists = TRUE /\ ftext \in UnparsableTexts
    /\ InitCommon

NextFresh ==
    \/ \E r \in Requests, body \in ObjectBodies :
          FirstIdle(r) /\ Arrive(r, body, 1)
    \/ \E r \in Requests : Resume(r)
    \/ \E r \in Requests : CheckExists(r)
    \/ \E r \in Requests : ReadFile(r)
    \/ \E r \in Requests : OpenWrite(r)
    \/ \E r \in Requests : Flush(r)
    \/ \E r \in Requests : CloseWrite(r)

SpecFresh == InitFresh /\ [][NextFresh]_vars

(***************************************************************************)
(* Properties.                                                             *)
(***************************************************************************)
Range(s) == {s[i] : i \in 1..Len(s)}

InFlight(r) == req[r].pc \notin {"idle", "done"}

\* new is what is left of all once its oldest entries are dropped so that at
\* most MAX_EVENTS remain
OldestDropped(all, new) ==
    LET d == Len(all) - Len(new)
    IN  /\ d = Max(Len(all) - MAX_EVENTS, 0)
        /\ \A i \in 1..Len(new) : new[i] = all[i + d]

C1_Bounded ==
    /\ EventsIn(ftext) <= MAX_EVENTS
    /\ \A r \in Requests :
          /\ Len(req[r].events) <= MAX_EVENTS
          /\ req[r].pc = "open_w" =>
                LET old == IF fexists /\ JsonValid(ftext)
                             THEN JsonLoad(ftext) ELSE <<>>
                IN  OldestDropped(Append(old, req[r].event), req[r].events)

C1_Written ==
    \A r \in Requests :
        req[r].pc = "dump" /\ req'[r].resp = 200 =>
            /\ JsonValid(ftext')
            /\ JsonLoad(ftext') = req[r].events

\* C1: the persisted log never holds more than 100 events; the list an
\* append is about to write is the log it read plus the new event, less
\* exactly the oldest entries beyond 100, in the same order; and a
\* completed append leaves exactly that list in the file.
C1_Retention == []C1_Bounded /\ [][C1_Written]_vars

\* C1 witness: an append onto a full log completed; the new event is the
\* last of 100 and the oldest event of the full log is gone.
C1_Witness ==
    /\ JsonValid(ftext)
    /\ Len(JsonLoad(ftext)) = MAX_EVENTS
    /\ \E r \in Requests :
          /\ req[r].resp = 200
          /\ JsonLoad(ftext)[MAX_EVENTS] = req[r].event
    /\ JsonLoad(ftext)[1] = FullLog[2]

\* the last Min(n, MAX_EVENTS) of n sequential appends, oldest first
LastAppended(n) ==
    LET k == Min(n, MAX_EVENTS)
    IN  [i \in 1..k |-> MakeEvent(n - k + i, PlainBody)]

\* C2: after N sequential appends to an initially absent log, the file and
\* a read of the whole log hold exactly the last min(N, 100) appended
\* events, oldest first.
C2_SequentialAppends ==
    Quiet =>
        LET n == clock - 1
        IN  /\ n = 0 => ~fexists
            /\ n > 0 => /\ fexists
                        /\ JsonValid(ftext)
                        /\ JsonLoad(ftext) = LastAppended(n)
            /\ tool.pc = "done" /\ tool.limit = MAX_EVENTS =>
                  tool.result = ListResult(LastAppended(n))

\* C2 witness: more than 100 events were appended and the whole log was read.
C2_Witness ==
    /\ Quiet
    /\ clock - 1 > MAX_EVENTS
    /\ tool.pc = "done"
    /\ tool.limit = MAX_EVENTS
    /\ Len(tool.result.items) = MAX_EVENTS
    /\ tool.result.items[1].timestamp = clock - MAX_EVENTS

\* C3: a reader whose read of the file falls inside a webhook append (the
\* handler has opened the file for writing and not yet closed it) reads a
\* complete log.
C3_ReaderSeesCompleteLog ==
    [][ ( /\ tool.pc = "open"
          /\ tool'.pc = "done"
          /\ \E r \in Requests : req[r].pc = "dump" )
        => JsonValid(tool'.snap) ]_vars

\* C4: get_recent_actions_events(limit), limit >= 0, returns exactly the
\* min(limit, L) most recent events of a log of length L, oldest first.
C4_RecentLimit ==
    ( /\ tool.pc = "done"
      /\ tool.op = "recent"
      /\ tool.result.kind = "list"
      /\ JsonValid(tool.snap) )
    => LET log == JsonLoad(tool.snap)
           k == Min(tool.limit, Len(log))
       IN  tool.result.items = SubSeq(log, Len(log) - k + 1, Len(log))

C5_Results ==
    tool.pc = "done" /\ ~fexists =>
        /\ tool.op = "recent" => tool.result = [kind |-> "list", items |-> <<>>]
        /\ tool.op = "status" => tool.result.kind = "message"

\* C5: while the log file does not exist, get_recent_actions_events returns
\* an empty list for every limit and get_workflow_status returns the
\* message for every workflow_name, and no tool step creates the file.
C5_AbsentLog ==
    []C5_Results /\ [][~fexists => ~fexists' /\ ftext' = ftext]_vars

\* C5 witness: get_workflow_status with a name filter returned the message
\* on an absent log.
C5_Witness ==
    /\ ~fexists
    /\ tool.pc = "done"
    /\ tool.op = "status"
    /\ tool.wname = Some("build")
    /\ tool.result.kind = "message"

\* C6: no tool call ends with an exception leaving the tool.
C6_NoUncaughtException ==
    tool.pc = "done" => ~IsException(tool.result)

\* the workflow_run dicts get_workflow_status reduces, for a filter
Considered(log, wname) ==
    LET runs == {log[i].workflow_run : i \in 1..Len(log)} \ {None}
    IN  IF wname = None \/ wname = Some("")
          THEN runs
          ELSE {run \in runs : "name" \in DOMAIN run /\ run.name = wname.some}

\* C7: whenever get_workflow_status returns statuses, every workflow name
\* among the events it reduces has a status, and that status carries the
\* fields of an event of that name whose updated_at no other event of the
\* name exceeds in lexicographic order.
C7_LatestWins ==
    ( /\ tool.pc = "done"
      /\ tool.op = "status"
      /\ tool.result.kind = "list" )
    => LET runs == Considered(JsonLoad(tool.snap), tool.wname)
           items == tool.result.items
       IN  \A run \in runs :
             \E i \in 1..Len(items) :
               /\ items[i].name = run.name
               /\ ~StrLess(items[i].updated_at, run.updated_at)
               /\ \E best \in runs :
                     /\ best.name = run.name
                     /\ best.updated_at = items[i].updated_at
                     /\ best.status = items[i].status
                     /\ best.run_number = items[i].run_number
                     /\ best.html_url = items[i].html_url
                     /\ "conclusion" \in DOMAIN best =>
                            best.conclusion = items[i].conclusion

\* C7 witness: the older build event was appended first, the newer one
\* second, and the status reported for build is the newer one's.
C7_Witness ==
    /\ tool.pc = "done"
    /\ tool.op = "status"
    /\ tool.result.kind = "list"
    /\ Len(JsonLoad(tool.snap)) = 2
    /\ JsonLoad(tool.snap)[1].workflow_run = RunBuildOld
    /\ JsonLoad(tool.snap)[2].workflow_run = RunBuildNew
    /\ Len(tool.result.items) = 1
    /\ tool.result.items[1].run_number = RunBuildNew.run_number

\* C8: no tool step changes the log file, and a call that repeats the call
\* before it returns the same result.
C8_ReadOnlyIdempotent ==
    [][ /\ fexists' = fexists
        /\ ftext' = ftext
        /\ tool.pc # "done" /\ tool'.pc = "done" /\ last.pc = "done" =>
              tool'.result = last.result ]_vars

\* C8 witness: get_workflow_status was called twice in a row on a log with
\* workflow runs and returned a status both times.
C8_Witness ==
    /\ tool.pc = "done"
    /\ last.pc = "done"
    /\ tool.op = "status"
    /\ tool.result.kind = "list"
    /\ Len(tool.result.items) >= 1
    /\ last.result.kind = "list"

\* C9: once all requests are answered and no write failed, the event of
\* every request answered 200 is in the log, whatever the interleaving of
\* the receiver's coroutines.
C9_NoLostAppend ==
    ( /\ Quiet
      /\ \A r \in Requests : req[r].outcome # "save_failed" )
    => \A r \in Requests :
          req[r].resp = 200 =>
              /\ JsonValid(ftext)
              /\ req[r].event \in Range(JsonLoad(ftext))

\* C9 witness: two requests were in flight together (the second to arrive
\* was resumed first) and both were answered 200.
C9_Witness ==
    /\ Quiet
    /\ req[1].resp = 200
    /\ req[2].resp = 200
    /\ req[2].event.timestamp < req[1].event.timestamp

HandlerStep ==
    \E r \in Requests :
        \/ Resume(r) \/ CheckExists(r) \/ ReadFile(r) \/ OpenWrite(r)
        \/ Flush(r) \/ CloseWrite(r)

C10_Pending ==
    /\ \A r \in Requests : req[r].pc # "done" => req[r].resp = 0
    /\ (\E r \in Requests : InFlight(r)) => ENABLED HandlerStep

C10_Answer ==
    \A r \in Requests :
        InFlight(r) /\ req'[r].pc = "done" =>
            LET written == /\ req[r].pc = "dump"
                           /\ JsonValid(ftext')
                           /\ Len(JsonLoad(ftext')) >= 1
                           /\ JsonLoad(ftext')[Len(JsonLoad(ftext'))]
                                  = req[r].event
                badjson == req[r].body.kind = "malformed"
            IN  /\ req'[r].resp \in {200, 400, 500}
                /\ req'[r].resp = 200 <=> written
                /\ req'[r].resp = 400 <=> badjson
                /\ req'[r].resp = 500 <=> ~written /\ ~badjson

\* C10: a request has no response until its handler returns and then has
\* exactly one: 200 exactly when the write of the log with the new event
\* completed, 400 exactly when the body is not JSON, 500 otherwise; and
\* while a request is unanswered some handler step can be taken.
C10_Responses == []C10_Pending /\ [][C10_Answer]_vars

\* C10 witness: one request was answered 500 after its write failed and
\* another was answered 200.
C10_Witness ==
    /\ req[1].resp = 500
    /\ req[1].outcome = "save_failed"
    /\ req[2].resp = 200

\* the number of lines of a text: one per line feed, and one for a last
\* line that has none
LineCount(text) ==
    Cardinality({i \in 1..Len(text) : text[i] = NL})
        + (IF text # <<>> /\ text[Len(text)] # NL THEN 1 ELSE 0)

\* the first m lines of a text of more than m lines, line feeds included
FirstLines(text, m) ==
    LET ends == {i \in 1..Len(text) :
                    /\ text[i] = NL
                    /\ Cardinality({j \in 1..i : text[j] = NL}) = m}
    IN  IF ends = {} THEN <<>> ELSE SubSeq(text, 1, CHOOSE i \in ends : TRUE)

Succeeded == an.pc = "done" /\ an.result.keys = AnalysisKeys

\* C11: with include_diff, a diff of L lines and max_diff_lines = M: if
\* L > M the diff returned is the first M lines followed by the notice
\* (showing M of L), truncated is true and total_diff_lines is L; if L <= M
\* the diff is returned as git printed it, truncated is false and
\* total_diff_lines is L.
C11_DiffTruncation ==
    Succeeded /\ an.include_diff =>
        LET L == LineCount(an.diff_out)
            M == an.max_diff_lines
            r == an.result
        IN  IF L > M
              THEN /\ r.diff = FirstLines(an.diff_out, M)
                                 \o <<NL, Showing(M, L), NL, UseMaxDiffLines>>
                   /\ r.truncated
                   /\ r.total_diff_lines = L
              ELSE /\ r.diff = an.diff_out
                   /\ ~r.truncated
                   /\ r.total_diff_lines = L

\* the queries a call has run so far
Queries == {an.calls[i].query : i \in 1..Len(an.calls)}

\* C12: a call with include_diff = false never runs the git diff query, and
\* when it returns an analysis its diff is the 'not included' text,
\* truncated is false and total_diff_lines is 0, for every max_diff_lines.
C12_DiffNotIncluded ==
    ~an.include_diff =>
        /\ "diff" \notin Queries
        /\ Succeeded =>
              /\ an.result.diff = NotIncluded
              /\ an.result.truncated = FALSE
              /\ an.result.total_diff_lines = 0

\* C12 witness: a call without include_diff returned an analysis after the
\* file list, status, statistics and commit list queries.
C12_Witness ==
    /\ Succeeded
    /\ ~an.include_diff
    /\ an.max_diff_lines = 1
    /\ Queries = {"name-only", "name-status", "stat", "log"}
    /\ an.result.diff = NotIncluded

\* the calls of the current analysis whose process ran longer than
\* command_timeout
TimedOut ==
    {i \in 1..Len(an.calls) : an.calls[i].outcome \in {"slow", "hang"}}

\* C13: when any query of a call exceeds command_timeout, the call returns
\* the timeout error, whose details carry the timeout value, and no
\* analysis.
C13_TimeoutReported ==
    an.pc = "done" /\ TimedOut # {} =>
        /\ an.result.error = "Git command timeout"
        /\ an.result.seconds = an.command_timeout
        /\ an.result.keys # AnalysisKeys

\* C14: every subprocess.run call of analyze_file_changes is given
\* command_timeout, and the call is never left waiting for a git process
\* that does not exit.
C14_EveryQueryBounded ==
    /\ \A i \in 1..Len(an.calls) : an.calls[i].timeout = an.command_timeout
    /\ an.pc # "blocked"

\* the error reported for each way a query can fail
ErrorOf(outcome) ==
    CASE outcome \in {"slow", "hang"} -> {"Git command timeout"}
      [] outcome = "notfound" -> {"Git not found"}
      [] outcome = "nonzero" -> {"Git command execution failed"}
      [] outcome = "permission" -> {"Permission denied"}
      [] outcome = "other" -> {"Unexpected OSError"}
      [] OTHER -> {}

Failed == {i \in 1..Len(an.calls) : an.calls[i].outcome # "ok"}

\* C15: a call in which a query failed returns the error of that kind of
\* failure (the first to fail), for every kind and every step; a query that
\* exits nonzero gives 'Git command execution failed'.
C15_FailureClassified ==
    an.pc = "done" /\ Failed # {} =>
        LET first == CHOOSE i \in Failed : \A j \in Failed : i <= j
        IN  /\ "error" \in an.result.keys
            /\ an.result.error \in ErrorOf(an.calls[first].outcome)

\* C16: for every combination of outcomes of the queries a call ends with a
\* result, which is the analysis or carries 'error'; it carries 'error'
\* whenever a query failed.
C16_StructuredResult ==
    /\ an.pc # "blocked"
    /\ an.pc = "done" =>
          /\ an.result.keys = AnalysisKeys \/ "error" \in an.result.keys
          /\ Failed # {} => "error" \in an.result.keys

\* two labels that differ at most in the case of their letters
SameIgnoringCase(x, y) ==
    /\ Len(x) = Len(y)
    /\ \A i \in 1..Len(x) :
          \/ x[i] = y[i]
          \/ \E k \in 1..Len(Uppers) :
                {x[i], y[i]} = {Uppers[k], Lowers[k]}

\* the groups of labels and the template identifier of each
LabelGroups ==
    { [labels |-> {<<"b", "u", "g">>, <<"f", "i", "x">>}, id |-> "bug.md"],
      [labels |-> {<<"f", "e", "a", "t", "u", "r", "e">>,
                   <<"e", "n", "h", "a", "n", "c", "e", "m", "e", "n", "t">>},
       id |-> "feature.md"],
      [labels |-> {<<"d", "o", "c", "s">>,
                   <<"d", "o", "c", "u", "m", "e", "n", "t", "a", "t", "i",
                     "o", "n">>},
       id |-> "docs.md"],
      [labels |-> {<<"r", "e", "f", "a", "c", "t", "o", "r">>,
                   <<"c", "l", "e", "a", "n", "u", "p">>},
       id |-> "refactor.md"],
      [labels |-> {<<"t", "e", "s", "t">>,
                   <<"t", "e", "s", "t", "i", "n", "g">>},
       id |-> "test.md"],
      [labels |-> {<<"p", "e", "r", "f", "o", "r", "m", "a", "n", "c", "e">>,
                   <<"o", "p", "t", "i", "m", "i", "z", "a", "t", "i", "o",
                     "n">>},
       id |-> "performance.md"],
      [labels |-> {<<"s", "e", "c", "u", "r", "i", "t", "y">>},
       id |-> "security.md"] }

GroupsOf(label) ==
    {g \in LabelGroups : \E l \in g.labels : SameIgnoringCase(l, label)}

\* C17: the template identifier suggest_template selects for a change_type
\* is that of the group holding the label, letter case ignored (so two
\* labels of one group select the same identifier), and feature for a
\* label in no group.
C17_CaseInsensitiveMapping ==
    sel.pc = "done" =>
        /\ \A g \in GroupsOf(sel.change_type) : sel.template_file = g.id
        /\ GroupsOf(sel.change_type) = {} => sel.template_file = "feature.md"

\* C17 witness: change_type "FIX" selected the bug template.
C17_Witness ==
    /\ sel.pc = "done"
    /\ sel.change_type = <<"F", "I", "X">>
    /\ sel.template_file = "bug.md"
    /\ sel.result.recommended_template.filename = "bug.md"

\* the catalog entries with a file name
EntriesNamed(templates, filename) ==
    {templates[i] : i \in {j \in 1..Len(templates) :
                              templates[j].filename = filename}}

\* C18: suggest_template returns an error exactly when the catalog
\* reported an error or is empty; otherwise it recommends the catalog entry
\* whose filename is the selected identifier, or the first entry when there
\* is none, and template_content is the content of the recommended entry.
C18_CatalogResolution ==
    sel.pc = "done" =>
        LET templates == sel.response.templates
            r == sel.result
            named == EntriesNamed(templates, sel.template_file)
        IN  /\ "error" \in r.keys <=>
                  "error" \in sel.response.keys \/ templates = <<>>
            /\ "error" \notin r.keys =>
                  /\ named # {} => r.recommended_template \in named
                  /\ named = {} => r.recommended_template = templates[1]
                  /\ r.template_content = r.recommended_template.content

\* C18 witness: the bug template is not in the catalog and the first entry
\* of the catalog, docs, was recommended with its content.
C18_Witness ==
    /\ sel.pc = "done"
    /\ sel.template_file = "bug.md"
    /\ "error" \notin sel.result.keys
    /\ Len(sel.response.templates) = 2
    /\ sel.result.recommended_template.filename = "docs.md"
    /\ sel.result.template_content = Content("docs.md")

\* C19: after two appends by different processes have both completed, the
\* log holds at least one of the two new events and every event it held
\* before them (the retention bound evicts none of these).
C19_ConcurrentAppends ==
    ( /\ Quiet
      /\ \A r \in Requests : req[r].resp = 200 )
    => /\ fexists
       /\ JsonValid(ftext)
       /\ \E r \in Requests : req[r].event \in Range(JsonLoad(ftext))
       /\ \A i \in 1..Len(PriorLog) : PriorLog[i] \in Range(JsonLoad(ftext))

\* C20: when the write of an append fails, the file holds the log the
\* append read, complete and without the new event (stated for appends
\* that read a valid log and met no eviction, so that the log read is the
\* list to be written less its last entry).
C20_FailedWriteKeepsLog ==
    [][ \A r \in Requests :
          ( /\ InFlight(r)
            /\ req'[r].outcome = "save_failed"
            /\ Len(req[r].events) >= 2
            /\ Len(req[r].events) < MAX_EVENTS )
          => /\ req'[r].resp = 500
             /\ fexists'
             /\ JsonValid(ftext')
             /\ JsonLoad(ftext')
                    = SubSeq(req[r].events, 1, Len(req[r].events) - 1) ]_vars

\* the request whose append is the first onto the log
First(r) == req[r].event.timestamp = 1

C21_Answered ==
    \A r \in Requests :
        First(r) =>
            /\ req[r].pc \in {"open_w", "dump"} =>
                  req[r].events = <<req[r].event>>
            /\ req[r].pc = "done" => req[r].resp = 200

C21_Written ==
    \A r \in Requests :
        First(r) /\ InFlight(r) /\ req'[r].pc = "done" =>
            /\ fexists'
            /\ JsonValid(ftext')
            /\ JsonLoad(ftext') = <<req[r].event>>

\* C21: the first append onto a log file that is absent or that json.load
\* rejects goes on with an empty list, is answered 200, and leaves a log
\* holding exactly its event.
C21_AppendOntoUnreadableLog == []C21_Answered /\ [][C21_Written]_vars

\* C21 witness: the first append was answered 200 and the file, which
\* exists, holds its event alone.
C21_Witness ==
    /\ fexists
    /\ \E r \in Requests :
          /\ First(r)
          /\ req[r].resp = 200
          /\ req[r].event.workflow_run = RunBuildOld
          /\ ftext = JsonDump(<<req[r].event>>)

Malformed(r) == req[r].body.kind = "malformed"

C22_NoFileAccess ==
    \A r \in Requests :
        Malformed(r) => /\ req[r].pc \in {"await_json", "done"}
                        /\ req[r].pc = "done" => req[r].resp = 400

C22_Frame ==
    \A r \in Requests :
        (Malformed(r) \/ req'[r].body.kind = "malformed") /\ req'[r] # req[r]
            => /\ fexists' = fexists
               /\ ftext' = ftext

\* C22: a request whose body is not JSON is answered 400; its handler
\* never reaches the existence check, the read, the open or the write of
\* the log file, and none of its steps changes the file.
C22_MalformedBodyLeavesLog == []C22_NoFileAccess /\ [][C22_Frame]_vars

\* C22 witness: a request with a malformed body was answered 400 and the
\* full log is as it was.
C22_Witness ==
    /\ \E r \in Requests : Malformed(r) /\ req[r].resp = 400
    /\ fexists
    /\ ftext = JsonDump(FullLog)

\* the events of a log that carry a workflow_run, of the given name when
\* a name is given
Matching(log, wname) ==
    {i \in 1..Len(log) :
        /\ log[i].workflow_run # None
        /\ wname # None => /\ "name" \in DOMAIN log[i].workflow_run
                           /\ log[i].workflow_run.name = wname.some}

NamesIn(log) ==
    {log[i].workflow_run.name :
        i \in {j \in 1..Len(log) : log[j].workflow_run # None}}

\* C24: on a non-empty log, the statuses get_workflow_status returns
\* without a name filter are one per workflow name occurring in the log;
\* with a name filter, the empty string included, they are at most one
\* and carry that name.
C24_OnePerName ==
    ( /\ tool.pc = "done"
      /\ tool.op = "status"
      /\ tool.result.kind = "list"
      /\ JsonValid(tool.snap)
      /\ JsonLoad(tool.snap) # <<>> )
    => LET items == tool.result.items
           log == JsonLoad(tool.snap)
       IN  /\ \A i, j \in 1..Len(items) :
                 items[i].name = items[j].name => i = j
           /\ tool.wname = None =>
                 {items[i].name : i \in 1..Len(items)} = NamesIn(log)
           /\ tool.wname # None =>
                 /\ Len(items) <= 1
                 /\ \A i \in 1..Len(items) : items[i].name = tool.wname.some

\* the place of each query in the order of the steps
Rank(query) ==
    CASE query = "name-only" -> 1
      [] query = "name-status" -> 2
      [] query = "stat" -> 3
      [] query = "diff" -> 4
      [] query = "log" -> 5

\* C25: the queries of one analyze_file_changes call are made in the order
\* file list, per-file status, statistics, full diff, commit list, each at
\* most once whatever its outcome, so at most five in all.
C25_QueryOrder ==
    /\ \A i, j \in 1..Len(an.calls) :
          i < j => Rank(an.calls[i].query) < Rank(an.calls[j].query)
    /\ Len(an.calls) <= 5

\* C25 witness: a call made all five queries; the per-file status query
\* timed out and was not made again.
C25_Witness ==
    /\ an.pc = "done"
    /\ Len(an.calls) = 5
    /\ an.calls[2].query = "name-status"
    /\ an.calls[2].outcome = "slow"
    /\ an.calls[3].query = "stat"

\* the calls of the current analysis that made a query
CallsOf(query) == {i \in 1..Len(an.calls) : an.calls[i].query = query}

\* C26: the per-file status query is made if and only if the file list of
\* step 1 is not empty, with the first 100 paths of the list at most, in
\* the order of the list; when the list is empty files_changed is empty.
C26_StatusQuery ==
    an.pc \in {"stat", "diff", "log", "done", "blocked"} =>
        /\ CallsOf("name-status") # {} <=> an.changed_files # <<>>
        /\ \A i \in CallsOf("name-status") :
              LET paths == an.calls[i].paths
              IN  /\ Len(paths) <= 100
                  /\ Len(paths) = Min(Len(an.changed_files), 100)
                  /\ \A k \in 1..Len(paths) : paths[k] = an.changed_files[k]
        /\ an.changed_files = <<>> =>
              /\ an.files_changed = <<>>
              /\ Succeeded => an.result.files_changed = <<>>

\* C26 witness: step 1 listed 101 files and the status query was given
\* the first 100.
C26_Witness ==
    /\ an.pc = "done"
    /\ Len(an.changed_files) = 101
    /\ \E i \in CallsOf("name-status") :
          /\ Len(an.calls[i].paths) = 100
          /\ an.calls[i].paths[100] = an.changed_files[100]

\* the file list query or the per-file status query failed
ListingFailed ==
    \E i \in CallsOf("name-only") \cup CallsOf("name-status") :
        an.calls[i].outcome # "ok"

\* every query after the two listing queries ended well
RestSucceeded ==
    \A i \in 1..Len(an.calls) :
        Rank(an.calls[i].query) >= 3 => an.calls[i].outcome = "ok"

\* C27: a failure of the file list query or of the per-file status query
\* leaves files_changed empty and the call goes on with the statistics,
\* diff (with include_diff) and commit list queries; when these succeed
\* the call returns an analysis without an error field.
C27_ListingFailureSwallowed ==
    ListingFailed /\ an.pc \in {"stat", "diff", "log", "done"} =>
        /\ an.files_changed = <<>>
        /\ an.pc = "done" /\ RestSucceeded =>
              /\ Succeeded
              /\ "error" \notin an.result.keys
              /\ an.result.files_changed = <<>>
              /\ CallsOf("stat") # {}
              /\ CallsOf("log") # {}
              /\ an.include_diff => CallsOf("diff") # {}

\* C27 witness: the file list query exited nonzero and the call, with
\* include_diff, returned an analysis after three more queries.
C27_Witness ==
    /\ Succeeded
    /\ an.include_diff
    /\ Len(an.calls) = 4
    /\ an.calls[1].outcome = "nonzero"
    /\ an.result.files_changed = <<>>

\* the events of a log that carry a workflow_run of a name and updated_at
SameStamp(log, name, updated_at) ==
    {i \in 1..Len(log) :
        /\ log[i].workflow_run # None
        /\ log[i].workflow_run.name = name
        /\ log[i].workflow_run.updated_at = updated_at}

\* C28: the status get_workflow_status reports for a name is that of the
\* earliest event in the log among the events of the name that carry the
\* updated_at reported, which no event of the name exceeds.
C28_EarliestOfEqual ==
    ( /\ tool.pc = "done"
      /\ tool.op = "status"
      /\ tool.result.kind = "list" )
    => LET log == JsonLoad(tool.snap)
           items == tool.result.items
       IN  \A k \in 1..Len(items) :
             LET same == SameStamp(log, items[k].name, items[k].updated_at)
                 first == CHOOSE i \in same : \A j \in same : i <= j
             IN  /\ same # {}
                 /\ items[k].run_number = log[first].workflow_run.run_number
                 /\ items[k].status = log[first].workflow_run.status
                 /\ items[k].html_url = log[first].workflow_run.html_url

\* C28 witness: two build events carry the same updated_at, the greatest,
\* and the status reported is that of the first of them.
C28_Witness ==
    /\ tool.pc = "done"
    /\ tool.op = "status"
    /\ tool.result.kind = "list"
    /\ Len(JsonLoad(tool.snap)) = 3
    /\ JsonLoad(tool.snap)[1].workflow_run = RunBuildOld
    /\ JsonLoad(tool.snap)[2].workflow_run = RunBuildNew
    /\ JsonLoad(tool.snap)[3].workflow_run = RunBuildTie
    /\ tool.result.items[1].run_number = RunBuildNew.run_number

=============================================================================
